---- MODULE Spec2Model ----
(***************************************************************************)
(* doc/thirdparty/doxygen/dedup_index.py: the script parses the XML file   *)
(* named by its single argument, parses and compiles the stylesheet at a   *)
(* fixed path, applies it, and prints the result over the input file.      *)
(*                                                                         *)
(* A file's content is abstracted to what the script's library calls can   *)
(* tell apart: whether the text is well-formed XML (wf), what it is as a   *)
(* stylesheet (xsl), the refids of its <compound> elements in document     *)
(* order (keys), and the number of line breaks after the root element (nl).*)
(***************************************************************************)
EXTENDS Integers, Sequences, FiniteSets, TLC

\* Longest list of <compound> elements in an initial index file.
MaxLen == 3
\* Invocations of the script in one behaviour.
MaxRuns == 2

Keys == {"A", "B"}

Index == "index.xml"
XslFile == "@PROJECT_DOC_DIR@/thirdparty/doxygen/dedup_index.xsl"
Other == "other.xml"
Paths == {Index, XslFile, Other}

Msg == "Removed duplicated <compound> elements in index.xml"

\* What a file can be as a stylesheet: not one, the deduplicating one, the
\* identity, one that drops the first <compound> (not idempotent), and one
\* that compiles but terminates the transformation with an error.
XslKinds == {"none", "dedup", "ident", "dropfirst", "abort"}

KeySeqs(n) == UNION {[1..k -> Keys] : k \in 0..n}

Missing == [ex |-> FALSE, wf |-> FALSE, xsl |-> "none", keys |-> <<>>, nl |-> 0]
Empty == [ex |-> TRUE, wf |-> FALSE, xsl |-> "none", keys |-> <<>>, nl |-> 0]
Junk == [ex |-> TRUE, wf |-> FALSE, xsl |-> "none", keys |-> <<"A">>, nl |-> 0]
XmlDoc(ks, n) == [ex |-> TRUE, wf |-> TRUE, xsl |-> "none", keys |-> ks, nl |-> n]
XslDoc(kind, n) == [ex |-> TRUE, wf |-> TRUE, xsl |-> kind, keys |-> <<>>, nl |-> n]

None == [xsl |-> "None", keys |-> <<>>, tail |-> 0]

RECURSIVE Dedup(_)
\* The stylesheet's rule: a <compound> whose refid occurred before is dropped.
Dedup(ks) ==
    IF ks = <<>> THEN <<>>
    ELSE LET init == Dedup(SubSeq(ks, 1, Len(ks) - 1))
             last == ks[Len(ks)]
         IN IF \E i \in 1..Len(init) : init[i] = last THEN init
            ELSE Append(init, last)

\* ET.parse succeeds on an existing file holding well-formed XML.
CanParse(c) == c.ex /\ c.wf

ET_parseKeepTail(c) == [xsl |-> c.xsl, keys |-> c.keys, tail |-> c.nl]

\* ET.parse: the tree of the document; white space after the root element
\* is not part of the tree.
ET_parse(c) == [xsl |-> c.xsl, keys |-> c.keys, tail |-> 0]

\* ET.XSLT accepts a tree that is a stylesheet.
CanCompile(t) == t.xsl # "none"

\* ET.XSLT: the compiled transform.
ET_XSLT(t) == t.xsl

\* transform(doc) raises when the stylesheet terminates the transformation.
CanApply(kind) == kind # "abort"

\* transform(doc): every stylesheet here copies what is not a <compound>.
XsltApply(kind, t) ==
    [xsl |-> t.xsl,
     keys |-> CASE kind = "dedup" -> Dedup(t.keys)
                [] kind = "dropfirst" -> (IF t.keys = <<>> THEN <<>> ELSE Tail(t.keys))
                [] OTHER -> t.keys,
     tail |-> t.tail]

\* str(transformed_doc): the serialized document ends with a line break.
Str(t) == [ex |-> TRUE, wf |-> TRUE, xsl |-> t.xsl, keys |-> t.keys, nl |-> t.tail + 1]

\* print(x, file=f) writes str(x) followed by a line break.
PrintData(t) == [Str(t) EXCEPT !.nl = @ + 1]

\* Text d written at the end of a file holding c: two documents in one file
\* are not well-formed XML.
Concat(c, d) ==
    IF c = Empty THEN d
    ELSE [ex |-> TRUE, wf |-> FALSE, xsl |-> "none", keys |-> c.keys \o d.keys, nl |-> d.nl]

\* What a write of d that fails part-way can leave in a truncated file.
PartialWrites(d) ==
    {Empty}
    \cup {[ex |-> TRUE, wf |-> FALSE, xsl |-> "none", keys |-> SubSeq(d.keys, 1, k), nl |-> 0] :
            k \in 1..Len(d.keys)}
    \cup {[d EXCEPT !.nl = n] : n \in 0..(d.nl - 1)}

OutDocOther(filename) == Other

OutDocXsl(filename) == XslFile

\* doxy_deduplicate_index passes filename as both inDoc and outDoc.
OutDocArg(filename) == filename

VARIABLES
    fs,               \* path -> content
    readonly,         \* paths that cannot be opened for writing
    argv,             \* the arguments after the script's name
    pc,               \* the line the process is at, or its end
    filename, inDoc, xslFile, outDoc,
    doc, xslt, transform, transformed_doc,
    f,                \* the output file object: "none", "open", "closed"
    stdout,           \* the lines of this process on standard output
    err,              \* the exception raised in this process, "none" if none
    runs,             \* invocations so far
    fs0,              \* history: the file system when this process started
    rdoc,             \* history: the paths this process parsed as the document
    wopened,          \* history: the paths this process opened for writing
    prev              \* history: the previous process

vars == <<fs, readonly, argv, pc, filename, inDoc, xslFile, outDoc, doc, xslt,
          transform, transformed_doc, f, stdout, err, runs, fs0, rdoc, wopened, prev>>

locals == <<filename, inDoc, xslFile, outDoc, doc, xslt, transform, transformed_doc>>

Args == {<<>>} \cup {<<p>> : p \in Paths}

Terminal == pc \in {"exit0", "exit1"}

InitIndex ==
    {Missing, Junk} \cup {XmlDoc(ks, n) : ks \in KeySeqs(MaxLen), n \in {0, 1, 2}}

InitXsl ==
    {Missing, Junk, XmlDoc(<<>>, 1)} \cup {XslDoc(k, n) : k \in XslKinds \ {"none"}, n \in {1, 2}}

Init ==
    /\ \E i \in InitIndex, x \in InitXsl :
          fs = [p \in Paths |-> IF p = Index THEN i ELSE IF p = XslFile THEN x ELSE Missing]
    /\ readonly \in SUBSET {Index, XslFile}
    /\ argv = <<>>
    /\ pc = "idle"
    /\ filename = "None" /\ inDoc = "None" /\ xslFile = "None" /\ outDoc = "None"
    /\ doc = None /\ xslt = None /\ transform = "None" /\ transformed_doc = None
    /\ f = "none"
    /\ stdout = <<>>
    /\ err = "none"
    /\ runs = 0
    /\ fs0 = fs
    /\ rdoc = {}
    /\ wopened = {}
    /\ prev = [argv |-> <<>>, pc |-> "idle", transform |-> "None"]

\* The build step runs the script: a new process, with a new standard output.
Invoke ==
    /\ pc = "idle" \/ Terminal
    /\ runs < MaxRuns
    /\ \E a \in Args : argv' = a
    /\ pc' = "l25"
    /\ filename' = "None" /\ inDoc' = "None" /\ xslFile' = "None" /\ outDoc' = "None"
    /\ doc' = None /\ xslt' = None /\ transform' = "None" /\ transformed_doc' = None
    /\ f' = "none"
    /\ stdout' = <<>>
    /\ err' = "none"
    /\ runs' = runs + 1
    /\ fs0' = fs
    /\ rdoc' = {}
    /\ wopened' = {}
    /\ prev' = [argv |-> argv, pc |-> pc, transform |-> transform]
    /\ UNCHANGED <<fs, readonly>>

\* An exception nothing catches ends the process with a non-zero status.
Raise(e) ==
    /\ err' = e
    /\ pc' = "exit1"

\* line 25: doxy_deduplicate_index(sys.argv[1])
Main ==
    /\ pc = "l25"
    /\ IF Len(argv) = 0
       THEN /\ Raise("IndexError")
            /\ UNCHANGED filename
       ELSE /\ filename' = argv[1]
            /\ pc' = "l21"
            /\ UNCHANGED err
    /\ UNCHANGED <<fs, readonly, argv, inDoc, xslFile, outDoc, doc, xslt, transform,
                   transformed_doc, f, stdout, runs, fs0, rdoc, wopened, prev>>

CallTransformPrintFirst ==
    /\ pc = "l21"
    /\ inDoc' = filename
    /\ xslFile' = XslFile
    /\ outDoc' = OutDocArg(filename)
    /\ stdout' = Append(stdout, Msg)
    /\ pc' = "l12"
    /\ UNCHANGED <<fs, readonly, argv, filename, doc, xslt, transform, transformed_doc,
                   f, err, runs, fs0, rdoc, wopened, prev>>

\* lines 21-22: xsl_transform(filename, "<stylesheet path>", filename)
CallTransform ==
    /\ pc = "l21"
    /\ inDoc' = filename
    /\ xslFile' = XslFile
    /\ outDoc' = OutDocArg(filename)
    /\ pc' = "l12"
    /\ UNCHANGED <<fs, readonly, argv, filename, doc, xslt, transform, transformed_doc,
                   f, stdout, err, runs, fs0, rdoc, wopened, prev>>

ParseDocCreating ==
    /\ pc = "l12"
    /\ rdoc' = rdoc \cup {inDoc}
    /\ IF CanParse(fs[inDoc])
       THEN /\ doc' = ET_parse(fs[inDoc])
            /\ pc' = "l13"
            /\ UNCHANGED <<err, fs>>
       ELSE /\ Raise("doc")
            /\ fs' = [fs EXCEPT ![inDoc] = IF @.ex THEN @ ELSE Empty]
            /\ UNCHANGED doc
    /\ UNCHANGED <<readonly, argv, filename, inDoc, xslFile, outDoc, xslt, transform,
                   transformed_doc, f, stdout, runs, fs0, wopened, prev>>

\* line 12: doc = ET.parse(inDoc)
ParseDoc ==
    /\ pc = "l12"
    /\ rdoc' = rdoc \cup {inDoc}
    /\ IF CanParse(fs[inDoc])
       THEN /\ doc' = ET_parse(fs[inDoc])
            /\ pc' = "l13"
            /\ UNCHANGED err
       ELSE /\ Raise("doc")
            /\ UNCHANGED doc
    /\ UNCHANGED <<fs, readonly, argv, filename, inDoc, xslFile, outDoc, xslt, transform,
                   transformed_doc, f, stdout, runs, fs0, wopened, prev>>

ParseXslOutputOpened ==
    /\ pc = "l13"
    /\ fs' = [fs EXCEPT ![outDoc] = IF outDoc \in readonly THEN @ ELSE Empty]
    /\ IF CanParse(fs'[xslFile])
       THEN /\ xslt' = ET_parse(fs'[xslFile])
            /\ pc' = "l14"
            /\ UNCHANGED err
       ELSE /\ Raise("xsl")
            /\ UNCHANGED xslt
    /\ UNCHANGED <<readonly, argv, filename, inDoc, xslFile, outDoc, doc, transform,
                   transformed_doc, f, stdout, runs, fs0, rdoc, wopened, prev>>

\* line 13: xslt = ET.parse(xslFile)
ParseXsl ==
    /\ pc = "l13"
    /\ IF CanParse(fs[xslFile])
       THEN /\ xslt' = ET_parse(fs[xslFile])
            /\ pc' = "l14"
            /\ UNCHANGED err
       ELSE /\ Raise("xsl")
            /\ UNCHANGED xslt
    /\ UNCHANGED <<fs, readonly, argv, filename, inDoc, xslFile, outDoc, doc, transform,
                   transformed_doc, f, stdout, runs, fs0, rdoc, wopened, prev>>

\* line 14: transform = ET.XSLT(xslt)
CompileXslt ==
    /\ pc = "l14"
    /\ IF CanCompile(xslt)
       THEN /\ transform' = ET_XSLT(xslt)
            /\ pc' = "l15"
            /\ UNCHANGED err
       ELSE /\ Raise("compile")
            /\ UNCHANGED transform
    /\ UNCHANGED <<fs, readonly, argv, filename, inDoc, xslFile, outDoc, doc, xslt,
                   transformed_doc, f, stdout, runs, fs0, rdoc, wopened, prev>>

ApplyTransformSkipped ==
    /\ pc = "l15"
    /\ IF CanApply(transform)
       THEN /\ transformed_doc' = doc
            /\ pc' = "l16"
            /\ UNCHANGED err
       ELSE /\ Raise("apply")
            /\ UNCHANGED transformed_doc
    /\ UNCHANGED <<fs, readonly, argv, filename, inDoc, xslFile, outDoc, doc, xslt,
                   transform, f, stdout, runs, fs0, rdoc, wopened, prev>>

\* line 15: transformed_doc = transform(doc)
ApplyTransform ==
    /\ pc = "l15"
    /\ IF CanApply(transform)
       THEN /\ transformed_doc' = XsltApply(transform, doc)
            /\ pc' = "l16"
            /\ UNCHANGED err
       ELSE /\ Raise("apply")
            /\ UNCHANGED transformed_doc
    /\ UNCHANGED <<fs, readonly, argv, filename, inDoc, xslFile, outDoc, doc, xslt,
                   transform, f, stdout, runs, fs0, rdoc, wopened, prev>>

OpenOutAppend ==
    /\ pc = "l16"
    /\ IF outDoc \in readonly
       THEN /\ Raise("open")
            /\ UNCHANGED <<fs, f, wopened>>
       ELSE /\ fs' = [fs EXCEPT ![outDoc] = IF @.ex THEN @ ELSE Empty]
            /\ f' = "open"
            /\ wopened' = wopened \cup {outDoc}
            /\ pc' = "l17"
            /\ UNCHANGED err
    /\ UNCHANGED <<readonly, argv, locals, stdout, runs, fs0, rdoc, prev>>

\* line 16: with open(outDoc, 'w') as f: the file is created or truncated.
OpenOut ==
    /\ pc = "l16"
    /\ IF outDoc \in readonly
       THEN /\ Raise("open")
            /\ UNCHANGED <<fs, f, wopened>>
       ELSE /\ fs' = [fs EXCEPT ![outDoc] = Empty]
            /\ f' = "open"
            /\ wopened' = wopened \cup {outDoc}
            /\ pc' = "l17"
            /\ UNCHANGED err
    /\ UNCHANGED <<readonly, argv, locals, stdout, runs, fs0, rdoc, prev>>

PrintToFileUnscoped ==
    /\ pc = "l17"
    /\ \/ /\ fs' = [fs EXCEPT ![outDoc] = Concat(@, PrintData(transformed_doc))]
          /\ pc' = "l17x"
          /\ UNCHANGED err
       \/ /\ \E part \in PartialWrites(PrintData(transformed_doc)) :
                fs' = [fs EXCEPT ![outDoc] = Concat(@, part)]
          /\ Raise("write")
    /\ UNCHANGED <<readonly, argv, locals, f, stdout, runs, fs0, rdoc, wopened, prev>>

\* line 17: print(transformed_doc, file=f); a write that fails (disk full,
\* a character the encoding lacks) leaves part of the text and raises
\* inside the with block.
PrintToFile ==
    /\ pc = "l17"
    /\ \/ /\ fs' = [fs EXCEPT ![outDoc] = Concat(@, PrintData(transformed_doc))]
          /\ UNCHANGED err
       \/ /\ \E part \in PartialWrites(PrintData(transformed_doc)) :
                fs' = [fs EXCEPT ![outDoc] = Concat(@, part)]
          /\ err' = "write"
    /\ pc' = "l17x"
    /\ UNCHANGED <<readonly, argv, locals, f, stdout, runs, fs0, rdoc, wopened, prev>>

ExitWithSuppressing ==
    /\ pc = "l17x"
    /\ f' = "closed"
    /\ pc' = "l23"
    /\ UNCHANGED <<fs, readonly, argv, locals, stdout, err, runs, fs0, rdoc, wopened, prev>>

\* lines 16-18: leaving the with block closes f; an exception of the block
\* goes on after that, otherwise the function returns to line 23.
ExitWith ==
    /\ pc = "l17x"
    /\ f' = "closed"
    /\ pc' = IF err = "none" THEN "l23" ELSE "exit1"
    /\ UNCHANGED <<fs, readonly, argv, locals, stdout, err, runs, fs0, rdoc, wopened, prev>>

\* line 23: print('Removed duplicated ...'); the script ends after it. A
\* standard output that cannot take the line ends the process with a
\* non-zero status.
PrintConfirm ==
    /\ pc = "l23"
    /\ \/ /\ stdout' = Append(stdout, Msg)
          /\ pc' = "exit0"
          /\ UNCHANGED err
       \/ /\ Raise("stdout")
          /\ UNCHANGED stdout
    /\ UNCHANGED <<fs, readonly, argv, locals, f, runs, fs0, rdoc, wopened, prev>>

Next ==
    \/ Invoke
    \/ Main
    \/ CallTransform
    \/ ParseDoc
    \/ ParseXsl
    \/ CompileXslt
    \/ ApplyTransform
    \/ OpenOut
    \/ PrintToFile
    \/ ExitWith
    \/ PrintConfirm

Spec == Init /\ [][Next]_vars

----------------------------------------------------------------------------
\* Properties of a run of the script.

Started == pc # "idle"

Range(s) == {s[i] : i \in DOMAIN s}

Count(k, s) == Cardinality({i \in DOMAIN s : s[i] = k})

\* The stylesheet file is missing, is not XML, or is not a stylesheet.
StylesheetInvalid(c) == ~c.ex \/ ~c.wf \/ c.xsl = "none"

\* What the stylesheet file makes of the document file, as a tree.
ResultOf(xslContent, docContent) ==
    XsltApply(ET_XSLT(ET_parse(xslContent)), ET_parse(docContent))

WithLineBreak(c) == [c EXCEPT !.nl = @ + 1]

\* Applying the stylesheet to its own result changes nothing.
IdempotentKind(kind) ==
    \A ks \in KeySeqs(MaxLen) :
        LET t == [xsl |-> "none", keys |-> ks, tail |-> 0]
        IN XsltApply(kind, XsltApply(kind, t)) = XsltApply(kind, t)

\* C1: when the stylesheet file is missing or is no stylesheet, the run never
\* opens a file for writing, never succeeds, and every file keeps the content
\* it had when the run started.
C1_InvalidStylesheetLeavesInput ==
    (Started /\ StylesheetInvalid(fs0[XslFile])) =>
        /\ fs = fs0
        /\ wopened = {}
        /\ f = "none"
        /\ pc # "exit0"

C1_Witness ==
    /\ pc = "exit1"
    /\ err = "xsl"
    /\ argv = <<Index>>
    /\ Index \notin readonly
    /\ ~fs0[XslFile].ex
    /\ fs0[Index] = XmlDoc(<<"A", "A", "B">>, 1)
    /\ fs[Index] = fs0[Index]

\* C2: when the file named by the argument does not exist, the run fails at
\* the parse of the document, creates and writes no file, and prints nothing.
C2_MissingInputLeavesFilesystem ==
    (Started /\ Len(argv) = 1 /\ ~fs0[argv[1]].ex) =>
        /\ fs = fs0
        /\ wopened = {}
        /\ stdout = <<>>
        /\ pc # "exit0"
        /\ Terminal => err = "doc"

C2_Witness ==
    /\ pc = "exit1"
    /\ err = "doc"
    /\ argv = <<Index>>
    /\ ~fs0[Index].ex
    /\ ~fs[Index].ex
    /\ Index \notin readonly
    /\ fs0[XslFile] = XslDoc("dedup", 1)

\* C3: a path opened for writing is the path that was parsed as the document
\* and is the argument; no other file's content changes during the run.
C3_OutputPathIsInputPath ==
    Started =>
        /\ \A p \in wopened : p \in rdoc /\ argv = <<p>>
        /\ \A p \in rdoc : argv = <<p>>
        /\ \A p \in Paths : fs[p] # fs0[p] => argv = <<p>>

C3_Witness ==
    /\ pc = "exit0"
    /\ wopened = {Index}
    /\ rdoc = {Index}
    /\ fs[Index] # fs0[Index]

\* C4 as stated: after a successful run the file holds exactly the string
\* form of the transform result, nothing added.
C4_Original ==
    pc = "exit0" => fs[argv[1]] = Str(ResultOf(fs0[XslFile], fs0[argv[1]]))

\* C4: after a successful run the file holds the string form of the transform
\* result followed by one line break, and nothing of its previous content.
C4_FileIsResultAndLineBreak ==
    pc = "exit0" =>
        fs[argv[1]] = WithLineBreak(Str(ResultOf(fs0[XslFile], fs0[argv[1]])))

C4_Witness ==
    /\ pc = "exit0"
    /\ argv = <<Index>>
    /\ fs0[Index] = XmlDoc(<<"A", "A", "B">>, 0)
    /\ fs0[XslFile].xsl = "dedup"
    /\ fs[Index] = XmlDoc(<<"A", "B">>, 2)

\* C5: a successful run that follows a successful run on the same path with
\* the same idempotent stylesheet leaves the file as the first run left it.
C5_SecondRunSameBytes ==
    (/\ pc = "exit0"
     /\ prev.pc = "exit0"
     /\ prev.argv = argv
     /\ prev.transform = transform
     /\ IdempotentKind(transform)) =>
        fs[argv[1]] = fs0[argv[1]]

C5_Witness ==
    /\ pc = "exit0"
    /\ runs = 2
    /\ prev.pc = "exit0"
    /\ prev.argv = <<Index>>
    /\ argv = <<Index>>
    /\ prev.transform = "dedup"
    /\ transform = "dedup"
    /\ fs[Index] = XmlDoc(<<"A", "B">>, 2)
    /\ fs0[Index] = fs[Index]

\* C6: after a successful run with the deduplicating stylesheet the file is
\* well-formed and holds exactly one <compound> for each refid the input had.
C6_OneCompoundPerKey ==
    (pc = "exit0" /\ transform = "dedup") =>
        /\ fs[argv[1]].wf
        /\ \A k \in Keys :
              Count(k, fs[argv[1]].keys) = IF k \in Range(fs0[argv[1]].keys) THEN 1 ELSE 0

C6_Witness ==
    /\ pc = "exit0"
    /\ transform = "dedup"
    /\ argv = <<Index>>
    /\ fs0[Index].keys = <<"A", "A", "B">>
    /\ fs[Index].keys = <<"A", "B">>

\* C7: standard output holds at most the one confirmation line; it is there
\* exactly when the run has succeeded, after the result was written and the
\* file closed, and never in a run in which a step raised.
C7_ConfirmationOnceAfterWrite ==
    /\ Len(stdout) <= 1
    /\ stdout # <<>> =>
          /\ stdout = <<Msg>>
          /\ pc = "exit0"
          /\ f = "closed"
          /\ fs[argv[1]] = PrintData(transformed_doc)
    /\ pc = "exit0" => stdout = <<Msg>>
    /\ err # "none" => stdout = <<>>

C7_Witness ==
    /\ pc = "exit0"
    /\ stdout = <<Msg>>
    /\ f = "closed"
    /\ wopened = {Index}

\* C8: the process ends with status 0 exactly when every step completed; an
\* exception is never caught: once raised, the only step left is leaving the
\* with block, and the process ends with a non-zero status.
C8_ExitStatus ==
    /\ pc = "exit0" =>
          /\ err = "none"
          /\ doc # None /\ xslt # None /\ transform # "None" /\ transformed_doc # None
          /\ wopened = {argv[1]}
          /\ f = "closed"
          /\ stdout = <<Msg>>
    /\ pc = "exit1" => err # "none"
    /\ err # "none" => pc \in {"exit1", "l17x"}
    /\ (err = "IndexError") => Len(argv) = 0
    /\ (err = "doc") => ~CanParse(fs0[argv[1]])
    /\ (err = "open") => argv[1] \in readonly

C8_Witness ==
    /\ pc = "exit1"
    /\ err = "stdout"
    /\ f = "closed"
    /\ fs[Index] = PrintData(transformed_doc)

\* C9: the output file is open only inside the with block; a process that
\* opened it has closed it when it ends, whether or not the write raised.
C9_HandleReleased ==
    /\ f = "open" => pc \in {"l17", "l17x"}
    /\ Terminal => f # "open"
    /\ (Terminal /\ wopened # {}) => f = "closed"

C9_Witness ==
    /\ pc = "exit1"
    /\ err = "write"
    /\ f = "closed"
    /\ wopened = {Index}
    /\ fs[Index] = Empty

\* C10 as stated: no run, whatever path it is given, changes the content of
\* the stylesheet file.
C10_Original ==
    Started => fs[XslFile] = fs0[XslFile]

\* C10: a run given a path other than the stylesheet's leaves the content of
\* the stylesheet file unchanged.
C10_StylesheetUnchangedUnlessInput ==
    (Started /\ argv # <<XslFile>>) => fs[XslFile] = fs0[XslFile]

C10_Witness ==
    /\ pc = "exit0"
    /\ argv = <<Index>>
    /\ fs[Index] # fs0[Index]
    /\ fs0[XslFile] = XslDoc("dedup", 1)
    /\ fs[XslFile] = fs0[XslFile]

====
